---- MODULE Spec2Model ----
(***************************************************************************)
(* Entitlement and payment-integrity flow of the chat server               *)
(* (src/server.js, current variant, lines 1-415; schemas in                *)
(* src/models/user.js).                                                    *)
(*                                                                         *)
(* Every Express handler is an async function.  The code between two       *)
(* awaits runs atomically on the event loop; every awaited database or     *)
(* provider call takes effect at one instant between being issued and the  *)
(* handler resuming.  One action of this model is therefore one awaited    *)
(* call together with the synchronous code that follows it up to the next  *)
(* await or the response.  Handlers of different requests interleave       *)
(* between those steps.  The handlers in flight are a bag: a handler has   *)
(* no identity beyond its request, its position and its locals.            *)
(*                                                                         *)
(* Mongoose: document.save() of a loaded document sends $set of the paths  *)
(* that were assigned a value different from the loaded one, filtered by   *)
(* _id; save() of a new document is an insert.  `unique: true` is a unique *)
(* index of the store: an insert of a second document with the same value  *)
(* is refused.                                                             *)
(***************************************************************************)
EXTENDS Integers, Sequences, FiniteSets, Bags, TLC

\* ---------------------------------------------------------------- bounds
MaxRequests == 2        \* requests issued in one behaviour; all of them can
                        \* be in flight at once

\* ------------------------------------------------------- program constants
FreeLimit == 6          \* server.js:218  user.chatAttempts >= 6
PaisePerUnit == 100     \* server.js:290 / 366

\* ------------------------------------------------------------ input sets
\* "" stands for a field that is missing or empty
ClerkIds == {"u1", "u2"}
OrderIds == {"order_1", "order_2"}
PaymentIds == {"pay_1", "pay_2"}
\* a JavaScript number with at most two decimals: n + hundredths / 100, with
\* n an integer and 0 <= hundredths <= 99
Decimal(n, hundredths) == [type |-> "number", n |-> n, hundredths |-> hundredths]
\* a request amount: its JavaScript type and, for a number, its value
Amount(n) == Decimal(n, 0)
BadAmounts == {[type |-> "undefined", n |-> 0, hundredths |-> 0],
               [type |-> "string", n |-> 500, hundredths |-> 0],
               Amount(0), Amount(-5)}
\* the currency of a request body: absent, null or a string
JsUndefined == [type |-> "undefined"]
JsNull == [type |-> "null"]
JsString(s) == [type |-> "string", s |-> s]
Currencies == {JsUndefined, JsNull, JsString(""), JsString("INR"), JsString("USD")}
\* error.statusCode of a rejected provider call; 0 is "no statusCode"
ProviderStatusCodes == {0, 400}
\* bindings of the free identifier `crypto` (the module never imports it):
\* Node's crypto module (a preload that defines the global) or a runtime
\* without crypto.createHmac (the Web Crypto global of Node >= 19; in older
\* Node the identifier is unbound, with the same outcome: the call throws)
CryptoBindings == {"node:crypto", "webcrypto"}
RAZORPAY_SECRET == "rzp_secret"            \* process.env.RAZORPAY_SECRET

NoUser == [absent |-> TRUE]                \* findOne resolving to null
NoOrder == [absent |-> TRUE]
NoReq == [ep |-> "none"]
NoMessage == [absent |-> TRUE]
NoBody == <<"no body">>                    \* a response without a document
NoResp == [ep |-> "none", status |-> 0, success |-> "unset", message |-> "",
           body |-> NoBody]

VARIABLES
    users,          \* User collection, in insertion order
    nextOid,        \* number of ObjectIds generated so far
    messages,       \* Message collection, in insertion order
    orders,         \* orders held by the payment provider, in creation order
    payments,       \* Payment collection, in insertion order
    cryptoGlobal,   \* what the free identifier `crypto` is bound to
    handlers,       \* bag of the handlers in flight, each a record of
                    \*   pc: the await it is suspended on
                    \*   req: the request it serves
                    \*   user, orderDetails, newMessage: its locals of
                    \*   that name
    resp,           \* the response sent by the last step, if it sent one
    started,        \* requests issued so far
    now,            \* the server clock, in milliseconds
    env,            \* the names set (non-empty) in process.env
    phase,          \* the server process: "loading" (the module is being
                    \*   evaluated), "connecting", "listening" or "exited"
    connection      \* the mongoose connection

vars == <<users, nextOid, messages, orders, payments, cryptoGlobal,
          handlers, resp, started, now, env, phase, connection>>
process == <<env, phase, connection>>
store == <<users, nextOid, messages, orders, payments>>

\* --------------------------------------------------------------- schemas
\* variant: the schema default of chatAttempts is 1
NewUserCounted(oid, clerkUserId) ==
    [id |-> oid, clerkUserId |-> clerkUserId,
     subscriptionStatus |-> "free", chatAttempts |-> 1]

\* new User({ clerkUserId }) with the schema defaults
NewUser(oid, clerkUserId) ==
    [id |-> oid, clerkUserId |-> clerkUserId,
     subscriptionStatus |-> "free", chatAttempts |-> 0]

\* variant: the filter is dropped and the first document is returned
FindOneUnfiltered(coll, clerkUserId) ==
    IF Len(coll) > 0 THEN coll[1] ELSE NoUser

\* User.findOne({ clerkUserId }) on a state of the collection: the first
\* matching document, or null
FindOne(coll, clerkUserId) ==
    IF \E i \in DOMAIN coll : coll[i].clerkUserId = clerkUserId
    THEN coll[CHOOSE i \in DOMAIN coll :
                /\ coll[i].clerkUserId = clerkUserId
                /\ \A j \in 1..(i - 1) : coll[j].clerkUserId # clerkUserId]
    ELSE NoUser

\* variant: the collection has no unique index
DuplicateKeyUnindexed(coll, doc) == FALSE

\* the unique index on clerkUserId (user.js:4) refuses the insert of doc
DuplicateKey(coll, doc) ==
    \E i \in DOMAIN coll : coll[i].clerkUserId = doc.clerkUserId

\* new Message({ userId, message, isFromUser, timestamp })
NewMessage(u, message, isFromUser, timestamp) ==
    [userId |-> u.id, message |-> message, isFromUser |-> isFromUser,
     timestamp |-> timestamp]

\* the awaits a handler can be suspended on
Positions == {"user_findOne", "user_save",
              "msg_findOne", "msg_saveMessage", "msg_saveUser",
              "order_findOne", "order_create",
              "verify_fetch", "verify_findOne", "verify_saveUser",
              "verify_savePayment", "hist_findOne", "hist_find"}

\* ------------------------------------------------------------ responses
Handler(at, r, u, od) ==
    [pc |-> at, req |-> r, user |-> u, orderDetails |-> od,
     newMessage |-> NoMessage]

\* res.status(status).json(body) followed by the handler's return: the
\* response goes out and the handler is gone
Respond(h, status, success, message) ==
    /\ resp' = [ep |-> h.req.ep, status |-> status, success |-> success,
                message |-> message, body |-> NoBody]
    /\ handlers' = handlers (-) SetToBag({h})

\* res.json(document): status 200 with the document, or the array of
\* documents, as the body
RespondJson(h, document) ==
    /\ resp' = [ep |-> h.req.ep, status |-> 200, success |-> "unset",
                message |-> "", body |-> document]
    /\ handlers' = handlers (-) SetToBag({h})

\* the handler issues its next awaited call and is suspended on it; the step
\* sends nothing
Await(h, at, r, u, od) ==
    /\ handlers' = (handlers (-) SetToBag({h})) (+) SetToBag({Handler(at, r, u, od)})
    /\ resp' = NoResp

\* the same for the handler of POST /api/messages, which holds newMessage
AwaitMessage(h, at, u, m) ==
    /\ handlers' = (handlers (-) SetToBag({h}))
                    (+) SetToBag({[Handler(at, h.req, u, NoOrder)
                                    EXCEPT !.newMessage = m]})
    /\ resp' = NoResp

\* a request arrives at the listening server and its handler is suspended on
\* its first awaited call
Begin(at, r) ==
    /\ phase = "listening"
    /\ started < MaxRequests
    /\ started' = started + 1
    /\ handlers' = handlers (+) SetToBag({Handler(at, r, NoUser, NoOrder)})
    /\ resp' = NoResp

\* ---------------------------------------------------------------- startup
\* requiredEnvVars, server.js:16-24
RequiredEnvVars == {"GEMINI_API_KEY", "NEBIUS_API_KEY", "RAZORPAY_KEY_ID",
                    "RAZORPAY_SECRET", "MONGODB_URI", "CLIENT_URL", "PORT"}

\* the environments the server is started in: complete, one name missing,
\* empty
Environments ==
    {RequiredEnvVars, {}} \cup {RequiredEnvVars \ {v} : v \in RequiredEnvVars}

\* requiredEnvVars.filter(varName => !process.env[varName])
missingEnvVars(e) == RequiredEnvVars \ e

\* the module's top level up to mongoose.connect(...): process.exit(1) when
\* a required name is missing, otherwise the connection attempt is started
LoadModule ==
    /\ phase = "loading"
    /\ phase' = IF Cardinality(missingEnvVars(env)) > 0 THEN "exited"
                                                        ELSE "connecting"
    /\ UNCHANGED <<store, cryptoGlobal, handlers, resp, started, now, env,
                   connection>>

\* variant: the server listens whether or not the connection succeeded
PhaseAfterConnectAlways(connected) == "listening"

\* .then(() => app.listen(...)) / .catch(() => process.exit(1))
PhaseAfterConnect(connected) == IF connected THEN "listening" ELSE "exited"

\* mongoose.connect(process.env.MONGODB_URI) settles; a connection without a
\* URI is rejected
Connect ==
    /\ phase = "connecting"
    /\ \E reachable \in BOOLEAN :
        LET connected == reachable /\ "MONGODB_URI" \in env IN
        /\ connection' = IF connected THEN "connected" ELSE "disconnected"
        /\ phase' = PhaseAfterConnect(connected)
    /\ UNCHANGED <<store, cryptoGlobal, handlers, resp, started, now, env>>

\* ------------------------------------------------- GET /api/user/:clerkUserId
\* The route only matches a non-empty path parameter.
GetUserStart ==
    \E c \in ClerkIds :
        /\ Begin("user_findOne", [ep |-> "getUser", clerkUserId |-> c])
        /\ UNCHANGED <<store, cryptoGlobal, now, process>>

\* await User.findOne({ clerkUserId }); if absent, new User(...) and save()
GetUserFindOne(h) ==
    /\ h.pc = "user_findOne"
    /\ \E dbOk \in BOOLEAN :
        IF ~dbOk
        THEN /\ Respond(h, 500, "unset", "Server error finding or creating user")
             /\ UNCHANGED nextOid
        ELSE LET found == FindOne(users, h.req.clerkUserId) IN
             IF found # NoUser
             THEN /\ RespondJson(h, found)
                  /\ UNCHANGED nextOid
             ELSE /\ Await(h, "user_save", h.req,
                           NewUser(nextOid + 1, h.req.clerkUserId), NoOrder)
                  /\ nextOid' = nextOid + 1
    /\ UNCHANGED <<users, messages, orders, payments, cryptoGlobal, started, now, process>>

\* await user.save(): an insert, refused by the unique index on clerkUserId
GetUserSave(h) ==
    /\ h.pc = "user_save"
    /\ \E dbOk \in BOOLEAN :
        IF dbOk /\ ~DuplicateKey(users, h.user)
        THEN /\ users' = Append(users, h.user)
             /\ RespondJson(h, h.user)
        ELSE /\ Respond(h, 500, "unset", "Server error finding or creating user")
             /\ UNCHANGED users
    /\ UNCHANGED <<nextOid, messages, orders, payments, cryptoGlobal, started, now, process>>

\* ------------------------------------------------------ POST /api/messages
\* variants of the gate with the comparison off by one
LimitReachedAbove(isFromUser, u) ==
    isFromUser /\ u.subscriptionStatus = "free" /\ u.chatAttempts > FreeLimit

LimitReachedEarly(isFromUser, u) ==
    isFromUser /\ u.subscriptionStatus = "free" /\ u.chatAttempts >= FreeLimit - 1

\* the gate of server.js:218
LimitReached(isFromUser, u) ==
    isFromUser /\ u.subscriptionStatus = "free" /\ u.chatAttempts >= FreeLimit

\* the condition of server.js:234
CountsAttempt(isFromUser, u) ==
    isFromUser /\ u.subscriptionStatus = "free"

\* user.chatAttempts += 1 on the local document
IncrementAttempts(u) == [u EXCEPT !.chatAttempts = @ + 1]

\* variant: the save writes the whole local document back
SaveAttemptsWholeDocument(stored, local) == local

\* variant: the counter is incremented in the store ($inc) instead of set
SaveAttemptsInc(stored, local) ==
    [stored EXCEPT !.chatAttempts = @ + 1]

\* user.save() after the increment: $set { chatAttempts, updatedAt }
SaveAttempts(stored, local) ==
    [stored EXCEPT !.chatAttempts = local.chatAttempts]

\* request bodies: well-formed ones, and one for each missing field
PostMessageBody(c, m, isFromUser) ==
    [ep |-> "postMessage", clerkUserId |-> c, message |-> m,
     isFromUser |-> isFromUser]

PostMessageRequests ==
    {PostMessageBody(c, "hi", f) : c \in ClerkIds, f \in BOOLEAN}
    \cup {PostMessageBody("", "hi", TRUE), PostMessageBody("u1", "", TRUE)}

PostMessageStart ==
    \E r \in PostMessageRequests :
        /\ Begin("msg_findOne", r)
        /\ UNCHANGED <<store, cryptoGlobal, now, process>>

\* the field check, await User.findOne({ clerkUserId }), the 404, the limit
\* check and new Message({..., timestamp: new Date()}); the clock has stood
\* still or moved on since it was last read
PostMessageFindOne(h) ==
    /\ h.pc = "msg_findOne"
    /\ \E dbOk \in BOOLEAN, elapsed \in {0, 1} :
        /\ now' = now + elapsed
        /\ IF h.req.clerkUserId = "" \/ h.req.message = ""
           THEN Respond(h, 400, "unset", "Missing clerkUserId or message content")
           ELSE IF ~dbOk
           THEN Respond(h, 500, "unset", "Server error saving message")
           ELSE LET found == FindOne(users, h.req.clerkUserId) IN
                IF found = NoUser
                THEN Respond(h, 404, "unset", "User not found")
                ELSE IF LimitReached(h.req.isFromUser, found)
                THEN Respond(h, 403, "unset", "Upgrade to pro to send more messages")
                ELSE AwaitMessage(h, "msg_saveMessage", found,
                        NewMessage(found, h.req.message, h.req.isFromUser, now'))
    /\ UNCHANGED <<store, cryptoGlobal, started, process>>

\* await newMessage.save(), then the increment of the local document
PostMessageSaveMessage(h) ==
    /\ h.pc = "msg_saveMessage"
    /\ \E dbOk \in BOOLEAN :
        IF ~dbOk
        THEN /\ Respond(h, 500, "unset", "Server error saving message")
             /\ UNCHANGED messages
        ELSE /\ messages' = Append(messages, h.newMessage)
             /\ IF CountsAttempt(h.req.isFromUser, h.user)
                THEN AwaitMessage(h, "msg_saveUser",
                                  IncrementAttempts(h.user), h.newMessage)
                ELSE Respond(h, 201, "unset", "newMessage")
    /\ UNCHANGED <<users, nextOid, orders, payments, cryptoGlobal, started, now, process>>

\* await user.save() on the stored document
PostMessageSaveUser(h) ==
    /\ h.pc = "msg_saveUser"
    /\ \E dbOk \in BOOLEAN :
        IF ~dbOk
        THEN /\ Respond(h, 500, "unset", "Server error saving message")
             /\ UNCHANGED users
        ELSE /\ users' = [i \in DOMAIN users |->
                            IF users[i].id = h.user.id
                            THEN SaveAttempts(users[i], h.user)
                            ELSE users[i]]
             /\ Respond(h, 201, "unset", "newMessage")
    /\ UNCHANGED <<nextOid, messages, orders, payments, cryptoGlobal, started, now, process>>

\* ------------------------------------------- GET /api/messages/:clerkUserId
\* The route only matches a non-empty path parameter.
GetMessagesStart ==
    \E c \in ClerkIds :
        /\ Begin("hist_findOne", [ep |-> "getMessages", clerkUserId |-> c])
        /\ UNCHANGED <<store, cryptoGlobal, now, process>>

\* await User.findOne({ clerkUserId }) and the 404
GetMessagesFindOne(h) ==
    /\ h.pc = "hist_findOne"
    /\ \E dbOk \in BOOLEAN :
        IF ~dbOk
        THEN Respond(h, 500, "unset", "Server error retrieving messages")
        ELSE LET found == FindOne(users, h.req.clerkUserId) IN
             IF found = NoUser
             THEN Respond(h, 404, "unset", "User not found")
             ELSE Await(h, "hist_find", h.req, found, NoOrder)
    /\ UNCHANGED <<store, cryptoGlobal, started, now, process>>

\* Message.find({ userId }): the matching documents, in insertion order
Find(coll, userId) == SelectSeq(coll, LAMBDA d : d.userId = userId)

\* variant: no sort, the documents are answered in insertion order
SortByTimestampInsertionOrder(docs, ties) == docs

\* .sort({ timestamp: 1 }): ascending by timestamp; the store does not
\* specify the order of documents with equal timestamps, which is here
\* either the insertion order or its reverse
SortByTimestamp(docs, ties) ==
    LET Before(i, j) ==
            \/ docs[i].timestamp < docs[j].timestamp
            \/ /\ docs[i].timestamp = docs[j].timestamp
               /\ IF ties = "insertion" THEN i < j ELSE i > j
        Rank(i) == 1 + Cardinality({j \in DOMAIN docs : Before(j, i)})
    IN  [r \in DOMAIN docs |-> docs[CHOOSE i \in DOMAIN docs : Rank(i) = r]]

\* await Message.find({ userId: user._id }).sort({ timestamp: 1 })
GetMessagesFind(h) ==
    /\ h.pc = "hist_find"
    /\ \E dbOk \in BOOLEAN, ties \in {"insertion", "reverse"} :
        IF ~dbOk
        THEN Respond(h, 500, "unset", "Server error retrieving messages")
        ELSE RespondJson(h, SortByTimestamp(Find(messages, h.user.id), ties))
    /\ UNCHANGED <<store, cryptoGlobal, started, now, process>>

\* ---------------------------------------------------- POST /api/create-order
\* variant: only a negative number is refused
InvalidAmountNegativeOnly(amount) ==
    amount.type = "number" /\ amount.n < 0

\* !amount || typeof amount !== 'number' || amount <= 0
InvalidAmount(amount) ==
    \/ amount.type # "number"
    \/ amount.n = 0 /\ amount.hundredths = 0
    \/ amount.n < 0 \/ (amount.n = 0 /\ amount.hundredths = 0)

\* const { currency = "INR" } = req.body: the default replaces an absent
\* currency only; null and the empty string are kept
CurrencyOrDefault(currency) ==
    IF currency = JsUndefined THEN JsString("INR") ELSE currency

\* Math.round(amount * 100): the product of a number with at most two
\* decimals is an integer, which Math.round returns as it is
AmountInPaise(amount) == amount.n * PaisePerUnit + amount.hundredths

\* variant: the options carry no tags
OrderOptionsUntagged(amount, currency, clerkUserId, u) ==
    [amount |-> AmountInPaise(amount),
     currency |-> CurrencyOrDefault(currency),
     notes |-> [clerkUserId |-> "", userId |-> 0]]

\* the options object of server.js:289-297 (receipt left out: it only
\* carries the clerkUserId and the clock)
OrderOptions(amount, currency, clerkUserId, u) ==
    [amount |-> AmountInPaise(amount),
     currency |-> CurrencyOrDefault(currency),
     notes |-> [clerkUserId |-> clerkUserId, userId |-> u.id]]

\* the identifier the provider gives its n-th order
ProviderOrderId(n) == IF n = 1 THEN "order_1" ELSE
                      IF n = 2 THEN "order_2" ELSE
                      IF n = 3 THEN "order_3" ELSE
                      IF n = 4 THEN "order_4" ELSE "order_5"

\* request bodies: well-formed ones, one with a fractional amount, one for
\* each kind of currency and of bad amount, and one without clerkUserId
CreateOrderBody(amount, currency, c) ==
    [ep |-> "createOrder", amount |-> amount, currency |-> currency,
     clerkUserId |-> c]

CreateOrderRequests ==
    {CreateOrderBody(Amount(500), JsUndefined, c) : c \in ClerkIds}
    \cup {CreateOrderBody(Amount(500), cur, "u1") :
              cur \in {JsString("USD"), JsString(""), JsNull}}
    \cup {CreateOrderBody(Decimal(500, 50), JsUndefined, "u1"),
          CreateOrderBody(Amount(500), JsUndefined, "")}
    \cup {CreateOrderBody(a, JsUndefined, "u1") : a \in BadAmounts}

CreateOrderStart ==
    \E r \in CreateOrderRequests :
        /\ Begin("order_findOne", r)
        /\ UNCHANGED <<store, cryptoGlobal, now, process>>

\* the field checks, await User.findOne({ clerkUserId }) and the 404
CreateOrderFindOne(h) ==
    /\ h.pc = "order_findOne"
    /\ \E dbOk \in BOOLEAN :
        IF InvalidAmount(h.req.amount)
        THEN Respond(h, 400, "unset", "Invalid or missing amount")
        ELSE IF h.req.clerkUserId = ""
        THEN Respond(h, 400, "unset", "clerkUserId is required to create an order")
        ELSE IF ~dbOk
        THEN Respond(h, 500, "unset", "db error")
        ELSE LET found == FindOne(users, h.req.clerkUserId) IN
             IF found = NoUser
             THEN Respond(h, 404, "unset", "User not found")
             ELSE Await(h, "order_create", h.req, found, NoOrder)
    /\ UNCHANGED <<store, cryptoGlobal, started, now, process>>

\* await razorpay.orders.create(options)
CreateOrderCreate(h) ==
    /\ h.pc = "order_create"
    /\ \/ \E code \in ProviderStatusCodes :
            /\ Respond(h, IF code = 0 THEN 500 ELSE code, "unset", "provider error")
            /\ UNCHANGED orders
       \/ /\ orders' = Append(orders,
                [id |-> ProviderOrderId(Len(orders) + 1)] @@
                OrderOptions(h.req.amount, h.req.currency,
                             h.req.clerkUserId, h.user))
          /\ Respond(h, 200, "unset", "order")
    /\ UNCHANGED <<users, nextOid, messages, payments, cryptoGlobal, started, now, process>>

\* --------------------------------------------------- POST /api/verify-payment
\* HMAC-SHA256 hex digest, idealised as collision free: the digest names its
\* key and its message
HmacSha256Hex(secret, data) == <<"hmac-sha256", secret, data>>

\* variant: only the order id is signed
generated_signature_order_only(razorpay_order_id, razorpay_payment_id) ==
    HmacSha256Hex(RAZORPAY_SECRET, razorpay_order_id)

\* createHmac(...).update(razorpay_order_id + "|" + razorpay_payment_id)
generated_signature(razorpay_order_id, razorpay_payment_id) ==
    HmacSha256Hex(RAZORPAY_SECRET, razorpay_order_id \o "|" \o razorpay_payment_id)

\* variant: any signature that is present is accepted
SignatureValidIfPresent(order_id, payment_id, signature) ==
    signature # <<>>

\* generated_signature === razorpay_signature
SignatureValid(order_id, payment_id, signature) ==
    generated_signature(order_id, payment_id) = signature

\* the signature the provider hands out for payment p of order o
IssuedSignature(o, p) == HmacSha256Hex(RAZORPAY_SECRET, o \o "|" \o p)

\* a signature computed without the secret
ForgedSignature(o, p) == HmacSha256Hex("guessed", o \o "|" \o p)

\* orders.fetch(id) of an order the provider holds
ProviderOrder(id) ==
    IF \E i \in 1..Len(orders) : orders[i].id = id
    THEN orders[CHOOSE i \in 1..Len(orders) : orders[i].id = id]
    ELSE NoOrder

\* variant: the tag is not checked
IdentityMismatchNever(od, clerkUserId) == FALSE

\* variant: only an order without a tag is refused
IdentityMismatchAbsentOnly(od, clerkUserId) ==
    od.notes.clerkUserId = ""

\* !orderClerkUserId || orderClerkUserId !== clerkUserId
IdentityMismatch(od, clerkUserId) ==
    od.notes.clerkUserId = "" \/ od.notes.clerkUserId # clerkUserId

\* the paths paymentSchema declares (createdAt, a default, left out)
PaymentSchemaPaths == {"userId", "amount", "status", "transactionId"}

\* orderDetails.amount / 100: JavaScript division, which keeps the hundredths
DividedBy100(paise) ==
    [n |-> paise \div PaisePerUnit, hundredths |-> paise % PaisePerUnit]

\* the object handed to new Payment(...) at server.js:363-372 (receipt left
\* out: it only carries the clerkUserId and the clock)
PaymentFields(u, od, body) ==
    [userId |-> u.id, clerkUserId |-> u.clerkUserId,
     amount |-> DividedBy100(od.amount), currency |-> od.currency,
     status |-> "completed", orderId |-> body.razorpay_order_id,
     transactionId |-> body.razorpay_payment_id,
     method |-> IF body.method = "" THEN "unknown" ELSE body.method]

\* variant: the amount and currency of the request body are recorded
NewPaymentFromBody(u, od, body) ==
    [f \in PaymentSchemaPaths |->
        [PaymentFields(u, od, body) EXCEPT
            !.amount = DividedBy100(body.amount),
            !.currency = JsString(body.currency)][f]]

\* new Payment({...}) under paymentSchema: a strict schema keeps the declared
\* paths and drops the others (clerkUserId, currency, orderId, method)
NewPayment(u, od, body) ==
    [f \in PaymentSchemaPaths |-> PaymentFields(u, od, body)[f]]

\* !razorpay_payment_id || !razorpay_order_id || !razorpay_signature ||
\* !clerkUserId
MissingFields(r) ==
    \/ r.razorpay_payment_id = ""
    \/ r.razorpay_order_id = ""
    \/ r.razorpay_signature = <<>>
    \/ r.clerkUserId = ""

\* request bodies: payments of the first order, for each claimed user, and a
\* payment of the second order, with the issued signature; a forged and a
\* replayed signature; one body for each missing field; one body with the
\* fields the handler does not ask for; two bodies whose ids contain the
\* separator of the signed message
VerifyPaymentBody(p, o, sig, c) ==
    [ep |-> "verifyPayment", razorpay_payment_id |-> p,
     razorpay_order_id |-> o, razorpay_signature |-> sig, clerkUserId |-> c,
     amount |-> 0, currency |-> "", method |-> ""]

\* a body that also carries an amount, a currency and a payment method of the
\* client's choosing
WithClientFields(body) ==
    [body EXCEPT !.amount = 100, !.currency = "USD", !.method = "card"]

VerifyPaymentRequests ==
    {VerifyPaymentBody(p, "order_1", IssuedSignature("order_1", p), c) :
        p \in PaymentIds, c \in ClerkIds}
    \cup {VerifyPaymentBody("pay_1", "order_2",
                            IssuedSignature("order_2", "pay_1"), "u1"),
          VerifyPaymentBody("pay_1", "order_1",
                            ForgedSignature("order_1", "pay_1"), "u1")}
    \cup {VerifyPaymentBody("pay_2", "order_1",
                            IssuedSignature("order_1", "pay_1"), "u1"),
          VerifyPaymentBody("", "order_1", IssuedSignature("order_1", ""), "u1"),
          VerifyPaymentBody("pay_1", "", IssuedSignature("", "pay_1"), "u1"),
          VerifyPaymentBody("pay_1", "order_1", <<>>, "u1"),
          VerifyPaymentBody("pay_1", "order_1",
                            IssuedSignature("order_1", "pay_1"), "")}
    \cup {WithClientFields(
            VerifyPaymentBody("pay_1", "order_1",
                              IssuedSignature("order_1", "pay_1"), "u1"))}
    \cup {VerifyPaymentBody("1", "order_1|pay",
                            IssuedSignature("order_1|pay", "1"), "u1"),
          VerifyPaymentBody("pay|1", "order_1",
                            IssuedSignature("order_1", "pay|1"), "u1")}

VerifyPaymentStart ==
    \E r \in VerifyPaymentRequests :
        /\ Begin("verify_fetch", r)
        /\ UNCHANGED <<store, cryptoGlobal, now, process>>

\* the field check, the HMAC and the signature comparison (synchronous), then
\* await razorpay.orders.fetch(razorpay_order_id), the 404 and the identity
\* check against notes.clerkUserId
VerifyPaymentFetch(h) ==
    /\ h.pc = "verify_fetch"
    /\ IF MissingFields(h.req)
       THEN Respond(h, 400, FALSE,
                    "Missing payment verification details or clerkUserId")
       ELSE IF cryptoGlobal # "node:crypto"
       THEN Respond(h, 500, FALSE, "crypto.createHmac is not a function")
       ELSE IF ~SignatureValid(h.req.razorpay_order_id,
                               h.req.razorpay_payment_id,
                               h.req.razorpay_signature)
       THEN Respond(h, 400, FALSE, "Invalid payment signature")
       ELSE \/ \E code \in ProviderStatusCodes :
                 Respond(h, IF code = 0 THEN 500 ELSE code, FALSE,
                         "provider error")
            \/ LET od == ProviderOrder(h.req.razorpay_order_id) IN
               IF od = NoOrder
               THEN Respond(h, 404, FALSE, "Order not found on Razorpay")
               ELSE IF IdentityMismatch(od, h.req.clerkUserId)
               THEN Respond(h, 400, FALSE, "User ID mismatch during verification")
               ELSE Await(h, "verify_findOne", h.req, NoUser, od)
    /\ UNCHANGED <<store, cryptoGlobal, started, now, process>>

\* await User.findOne({ clerkUserId: orderClerkUserId }) and the 404
VerifyPaymentFindOne(h) ==
    /\ h.pc = "verify_findOne"
    /\ \E dbOk \in BOOLEAN :
        IF ~dbOk
        THEN Respond(h, 500, FALSE, "db error")
        ELSE LET found == FindOne(users, h.orderDetails.notes.clerkUserId) IN
             IF found = NoUser
             THEN Respond(h, 404, FALSE, "User associated with order not found")
             ELSE Await(h, "verify_saveUser", h.req, found, h.orderDetails)
    /\ UNCHANGED <<store, cryptoGlobal, started, now, process>>

\* variant: the save resets the counter and leaves the tier as stored
UpgradeStoredCounterOnly(stored, loaded) ==
    [stored EXCEPT !.chatAttempts = IF loaded.chatAttempts # 0 THEN 0 ELSE @]

\* variant: the save sets the tier and leaves the counter as stored
UpgradeStoredTierOnly(stored, loaded) ==
    [stored EXCEPT
        !.subscriptionStatus =
            IF loaded.subscriptionStatus # "pro" THEN "pro" ELSE @]

\* user.subscriptionStatus = "pro"; user.chatAttempts = 0; await user.save():
\* $set of the paths whose assigned value differs from the loaded one
UpgradeStored(stored, loaded) ==
    [stored EXCEPT
        !.subscriptionStatus =
            IF loaded.subscriptionStatus # "pro" THEN "pro" ELSE @,
        !.chatAttempts = IF loaded.chatAttempts # 0 THEN 0 ELSE @]

VerifyPaymentSaveUser(h) ==
    /\ h.pc = "verify_saveUser"
    /\ \E dbOk \in BOOLEAN :
        IF ~dbOk
        THEN /\ Respond(h, 500, FALSE, "db error")
             /\ UNCHANGED users
        ELSE /\ users' = [i \in DOMAIN users |->
                            IF users[i].id = h.user.id
                            THEN UpgradeStored(users[i], h.user)
                            ELSE users[i]]
             /\ Await(h, "verify_savePayment", h.req, h.user, h.orderDetails)
    /\ UNCHANGED <<nextOid, messages, orders, payments, cryptoGlobal, started, now, process>>

\* await newPayment.save(): an insert; paymentSchema declares no unique index
VerifyPaymentSavePayment(h) ==
    /\ h.pc = "verify_savePayment"
    /\ \E dbOk \in BOOLEAN :
        IF ~dbOk
        THEN /\ Respond(h, 500, FALSE, "db error")
             /\ UNCHANGED payments
        ELSE /\ payments' = Append(payments,
                    NewPayment(h.user, h.orderDetails, h.req))
             /\ Respond(h, 200, TRUE, "Payment verified and subscription updated")
    /\ UNCHANGED <<users, nextOid, messages, orders, cryptoGlobal, started, now, process>>

\* ------------------------------------------------------------ initial states
\* The server process is started, in some environment, on a store in a state
\* that earlier, completed requests produce:
\* no account, or account u1 (GET /api/user/u1) still free with counter k,
\* after k accepted user messages sent one after the other or after k - 1
\* such messages and two concurrent ones; the provider holds no order, an
\* order created by POST /api/create-order for u1, an order without notes
\* (created by the variant of create-order at server.js:747-763), or an order
\* tagged with an account that this store does not hold (the provider
\* account is shared with deployments on other databases, and documents can
\* be removed from the store by hand; server.js:350).
StartAttempts == {0, 5, 6}

U1 == NewUser(1, "u1")

StoredTurns(u, k) == [i \in 1..k |-> NewMessage(u, "hi", TRUE, i)]

\* the same turns when the last two came from concurrent requests: the
\* handler that read the clock later (server.js:228) had its
\* newMessage.save() (server.js:230) applied first, so the last two documents
\* are stored against the order of their timestamps
StoredTurnsInterleaved(u, k) ==
    [i \in 1..k |->
        NewMessage(u, "hi", TRUE,
                   IF i = k - 1 THEN k ELSE IF i = k THEN k - 1 ELSE i)]

\* the turns stored at the start for an account whose counter is k: k turns
\* written one after the other, or k - 1 such turns followed by two written
\* by concurrent requests. The two concurrent handlers both read the
\* counter k - 1 (server.js:212) before either saved, and both wrote k
\* (server.js:235-237), so the counter k comes with k + 1 turns
StoredHistory(u, k, interleaved) ==
    IF interleaved /\ k >= 1 THEN StoredTurnsInterleaved(u, k + 1)
    ELSE StoredTurns(u, k)

TaggedOrder ==
    [id |-> ProviderOrderId(1)] @@
    OrderOptions(Amount(500), JsUndefined, "u1", U1)

UntaggedOrder ==
    [id |-> ProviderOrderId(1), amount |-> 500 * PaisePerUnit,
     currency |-> JsString("INR"), notes |-> [clerkUserId |-> "", userId |-> 0]]

OrphanOrder ==
    [id |-> ProviderOrderId(1), amount |-> 500 * PaisePerUnit,
     currency |-> JsString("INR"), notes |-> [clerkUserId |-> "u2", userId |-> 2]]

InitStored(interleaved) ==
    /\ \/ /\ users = <<>>
          /\ nextOid = 0
          /\ messages = <<>>
          /\ orders = <<>>
          /\ now = 0
       \/ \E k \in StartAttempts :
          /\ users = <<[U1 EXCEPT !.chatAttempts = k]>>
          /\ nextOid = 1
          /\ messages = StoredHistory(U1, k, interleaved)
          /\ now = Len(StoredHistory(U1, k, interleaved))
          /\ orders \in {<<TaggedOrder>>, <<UntaggedOrder>>, <<OrphanOrder>>}
    /\ payments = <<>>
    /\ cryptoGlobal \in CryptoBindings
    /\ handlers = EmptyBag
    /\ resp = NoResp
    /\ started = 0
    /\ env \in Environments
    /\ phase = "loading"
    /\ connection = "disconnected"

\* the earlier messages were sent one after the other
Init == InitStored(FALSE)

\* the last two of the earlier messages were sent concurrently
InitInterleaved == InitStored(TRUE)

Next ==
    \/ LoadModule
    \/ Connect
    \/ GetUserStart
    \/ PostMessageStart
    \/ CreateOrderStart
    \/ VerifyPaymentStart
    \/ GetMessagesStart
    \/ \E h \in BagToSet(handlers) :
        \/ GetUserFindOne(h)
        \/ GetUserSave(h)
        \/ PostMessageFindOne(h)
        \/ PostMessageSaveMessage(h)
        \/ PostMessageSaveUser(h)
        \/ CreateOrderFindOne(h)
        \/ CreateOrderCreate(h)
        \/ VerifyPaymentFetch(h)
        \/ VerifyPaymentFindOne(h)
        \/ VerifyPaymentSaveUser(h)
        \/ VerifyPaymentSavePayment(h)
        \/ GetMessagesFindOne(h)
        \/ GetMessagesFind(h)

Spec == Init /\ [][Next]_vars

SpecInterleaved == InitInterleaved /\ [][Next]_vars

\* ------------------------------------------------------------------ typing
TypeOK ==
    /\ \A i \in DOMAIN users :
            /\ users[i].clerkUserId \in ClerkIds
            /\ users[i].subscriptionStatus \in {"free", "pro"}
            /\ users[i].chatAttempts \in Nat
    /\ started \in 0..MaxRequests
    /\ now \in Nat
    /\ env \subseteq RequiredEnvVars
    /\ phase \in {"loading", "connecting", "listening", "exited"}
    /\ connection \in {"disconnected", "connected"}
    /\ resp.status \in {0, 200, 201, 400, 403, 404, 500}
    /\ \A i \in DOMAIN orders :
            orders[i].amount \in Nat /\ orders[i].currency \in Currencies
    /\ \A i \in DOMAIN payments :
            payments[i].amount.n \in Nat /\ payments[i].amount.hundredths \in 0..99

\* ======================================================================
\* Properties
\* ======================================================================
Exists(c) == FindOne(users, c) # NoUser
IsFree(c) == Exists(c) /\ FindOne(users, c).subscriptionStatus = "free"

\* user-originated turns stored for the account of clerkUserId c
UserTurns(c) ==
    Cardinality({i \in 1..Len(messages) :
                    messages[i].userId = FindOne(users, c).id /\ messages[i].isFromUser})

\* payment records stored for a provider payment id
RecordsOf(pays, p) ==
    Cardinality({i \in 1..Len(pays) :
                    pays[i].transactionId = p /\ pays[i].status = "completed"})

\* the handlers in flight
InFlight == BagToSet(handlers)
\* handler h sends its response in this step / goes on to the await `at` /
\* takes a step
Responds(h) == handlers' = handlers (-) SetToBag({h})
GoesTo(h, at) ==
    \E g \in BagToSet(handlers') :
        /\ g.pc = at /\ g.req = h.req
        /\ handlers' = (handlers (-) SetToBag({h})) (+) SetToBag({g})
Steps(h) == Responds(h) \/ \E at \in Positions \ {h.pc} : GoesTo(h, at)
\* responses caused by the database or the provider failing, not by the request
InfraMessages == {"db error", "provider error", "Server error saving message",
                  "Server error finding or creating user",
                  "Server error retrieving messages"}
InfraFailure(h) == Responds(h) /\ resp'.message \in InfraMessages

\* handler h of POST /api/messages reads an existing account in this step
ReadsAccount(h) ==
    /\ h.pc = "msg_findOne" /\ Steps(h)
    /\ h.req.clerkUserId # "" /\ h.req.message # ""
    /\ Exists(h.req.clerkUserId)
    /\ ~InfraFailure(h)

\* C1: in every reachable state every free account has chatAttempts <= 6,
\* also when requests for the same account interleave between their read of
\* the account and their write of the counter.
C1_FreeWithinLimit ==
    \A c \in ClerkIds : IsFree(c) => FindOne(users, c).chatAttempts <= FreeLimit

\* two interleaved requests have both stored their turn and written the
\* counter, which stands at the limit
C1_Witness ==
    /\ IsFree("u1") /\ FindOne(users, "u1").chatAttempts = FreeLimit
    /\ UserTurns("u1") = FreeLimit + 1
    /\ handlers = EmptyBag

\* C2: the check and the increment act as one compare-and-increment, so a
\* free account never has more than 6 user-originated turns stored.
C2_AcceptedWithinQuota ==
    \A c \in ClerkIds : IsFree(c) => UserTurns(c) <= FreeLimit

\* C3: a user-originated POST /api/messages that finds a free account with
\* chatAttempts = 6 is answered 403, changes nothing in the store and stores
\* no turn.
C3_RejectedAtLimit ==
    [][\A h \in InFlight :
        (/\ ReadsAccount(h)
         /\ h.req.isFromUser
         /\ IsFree(h.req.clerkUserId)
         /\ FindOne(users, h.req.clerkUserId).chatAttempts = FreeLimit)
        => /\ Responds(h)
           /\ resp'.ep = "postMessage" /\ resp'.status = 403
           /\ UNCHANGED store]_vars

C3_Witness ==
    /\ resp.ep = "postMessage" /\ resp.status = 403
    /\ IsFree("u1") /\ FindOne(users, "u1").chatAttempts = FreeLimit
    /\ UserTurns("u1") = FreeLimit

\* C4: a user-originated POST /api/messages passes the gate iff the account
\* it reads is pro, or is free with chatAttempts < 6; otherwise it is
\* answered 403.
C4_GateIffEntitled ==
    [][\A h \in InFlight :
        (ReadsAccount(h) /\ h.req.isFromUser)
        => LET u == FindOne(users, h.req.clerkUserId) IN
           /\ GoesTo(h, "msg_saveMessage")
                <=> \/ u.subscriptionStatus = "pro"
                    \/ u.subscriptionStatus = "free" /\ u.chatAttempts < FreeLimit
           /\ ~GoesTo(h, "msg_saveMessage") => resp'.status = 403]_vars

\* a user-originated turn of a pro account has passed the gate
C4_Witness ==
    \E h \in InFlight :
        /\ h.pc = "msg_saveMessage" /\ h.req.isFromUser
        /\ h.user.subscriptionStatus = "pro"

\* C5: an accepted POST /api/messages changes the stored chatAttempts by
\* exactly +1 (and nothing else of the account) when the turn is
\* user-originated and the account free, changes no account when the account
\* is pro or the turn assistant-originated, and an assistant-originated turn
\* is never stopped by the gate.
C5_ExactIncrement ==
    [][\A h \in InFlight :
        /\ (h.pc = "msg_saveUser" /\ Responds(h) /\ resp'.status = 201)
           => LET c == h.req.clerkUserId IN
              /\ FindOne(users', c).chatAttempts = FindOne(users, c).chatAttempts + 1
              /\ FindOne(users', c).subscriptionStatus = FindOne(users, c).subscriptionStatus
        /\ (h.pc = "msg_saveMessage" /\ Responds(h) /\ resp'.status = 201)
           => UNCHANGED users
        /\ (ReadsAccount(h) /\ ~h.req.isFromUser)
           => GoesTo(h, "msg_saveMessage")]_vars

\* a verify-payment request with the issued signature, for an order the
\* provider holds and that is tagged with the claimed, existing account
GoodVerify(h) ==
    /\ h.req.ep = "verifyPayment" /\ ~MissingFields(h.req)
    /\ h.req.razorpay_signature =
         IssuedSignature(h.req.razorpay_order_id, h.req.razorpay_payment_id)
    /\ ProviderOrder(h.req.razorpay_order_id) # NoOrder
    /\ ProviderOrder(h.req.razorpay_order_id).notes.clerkUserId
         = h.req.clerkUserId
    /\ Exists(h.req.clerkUserId)

\* C6: verify-payment with the correct signature and the matching
\* clerkUserId for an order created for that account answers success = true
\* (unless the database or the provider fails), and then the account is pro
\* with chatAttempts = 0 and exactly one completed payment record exists for
\* the payment.
C6_VerifiedPaymentUpgrades ==
    [][\A h \in InFlight :
        (GoodVerify(h) /\ Responds(h) /\ ~InfraFailure(h))
        => LET c == h.req.clerkUserId IN
           /\ resp'.success = TRUE
           /\ FindOne(users', c).subscriptionStatus = "pro"
           /\ FindOne(users', c).chatAttempts = 0
           /\ RecordsOf(payments', h.req.razorpay_payment_id) = 1]_vars

\* C7: a verify-payment request whose signature is not the HMAC of
\* (order id, payment id) under the server's secret is answered
\* success = false in its first step and changes nothing in the store.
C7_BadSignatureRejected ==
    [][\A h \in InFlight :
        (/\ h.pc = "verify_fetch" /\ Steps(h)
         /\ h.req.razorpay_signature #
              IssuedSignature(h.req.razorpay_order_id,
                              h.req.razorpay_payment_id))
        => /\ Responds(h)
           /\ resp'.ep = "verifyPayment" /\ resp'.success = FALSE
           /\ UNCHANGED store]_vars

C7_Witness ==
    /\ resp.ep = "verifyPayment" /\ resp.success = FALSE
    /\ resp.message = "Invalid payment signature"
    /\ payments = <<>>

\* C8: when the clerkUserId tagged on the fetched order is absent or differs
\* from the one claimed in the request, verify-payment answers
\* success = false and changes nothing in the store; and every account a
\* verify-payment handler writes, and every payment record it appends, is
\* the account the order is tagged with, which is the one claimed.
C8_OnlyTaggedAccountCredited ==
    [][\A h \in InFlight :
        LET od == ProviderOrder(h.req.razorpay_order_id) IN
        /\ (/\ h.pc = "verify_fetch" /\ Steps(h) /\ od # NoOrder
            /\ od.notes.clerkUserId # h.req.clerkUserId)
           => /\ Responds(h) /\ resp'.success = FALSE
              /\ UNCHANGED store
        /\ (h.pc \in {"verify_saveUser", "verify_savePayment"} /\ Steps(h))
           => /\ od.notes.clerkUserId = h.req.clerkUserId
              /\ \A c \in ClerkIds :
                    FindOne(users', c) # FindOne(users, c) => c = od.notes.clerkUserId
              /\ payments' # payments
                    => payments'[Len(payments')].userId
                         = FindOne(users, od.notes.clerkUserId).id]_vars

\* a correctly signed request was refused for claiming another account
C8_Witness ==
    /\ resp.ep = "verifyPayment" /\ resp.success = FALSE
    /\ resp.message = "User ID mismatch during verification"
    /\ payments = <<>>
    /\ \A c \in ClerkIds : Exists(c) => FindOne(users, c).subscriptionStatus = "free"

\* C9: a verify-payment request for a payment that already has a payment
\* record is a no-op that still reports success: none of its steps changes
\* an account or the payment records, and (unless the database or the
\* provider fails) it answers success = true.
C9_ResubmissionIsNoOp ==
    [][\A h \in InFlight :
        (/\ GoodVerify(h) /\ Steps(h)
         /\ RecordsOf(payments, h.req.razorpay_payment_id) >= 1)
        => /\ UNCHANGED <<users, payments>>
           /\ (Responds(h) /\ ~InfraFailure(h)) => resp'.success = TRUE]_vars

\* C10: in every reachable state no two payment records carry the same
\* transactionId.
C10_OneRecordPerPayment ==
    \A i, j \in 1..Len(payments) :
        payments[i].transactionId = payments[j].transactionId => i = j

\* handler h of verify-payment has had its save of the upgraded account
\* acknowledged: it loaded a free account and wrote it as pro
HasUpgraded(h) ==
    /\ h.req.ep = "verifyPayment" /\ h.pc = "verify_savePayment"
    /\ h.user.subscriptionStatus = "free"

\* C11: a verify-payment attempt that answers success = false has neither
\* upgraded the account nor appended a payment record.
C11_AllOrNothing ==
    [][\A h \in InFlight :
        (h.req.ep = "verifyPayment" /\ Responds(h) /\ resp'.success = FALSE)
        => /\ ~HasUpgraded(h)
           /\ payments' = payments]_vars

\* the accounts a payment record belongs to
OwnersOf(rec) == {c \in ClerkIds : Exists(c) /\ FindOne(users, c).id = rec.userId}

\* C12: the upgrade is stored before the payment record is appended: in
\* every reachable state, the states between the two writes included, the
\* account of every completed payment record is pro.
C12_RecordImpliesPro ==
    \A i \in 1..Len(payments) :
        payments[i].status = "completed"
        => /\ OwnersOf(payments[i]) # {}
           /\ \A c \in OwnersOf(payments[i]) :
                FindOne(users, c).subscriptionStatus = "pro"

\* a record has been appended for an account that was free when the attempt
\* began
C12_Witness ==
    /\ Len(payments) = 1 /\ payments[1].status = "completed"
    /\ "u1" \in OwnersOf(payments[1])
    /\ FindOne(users, "u1").subscriptionStatus = "pro"
    /\ handlers = EmptyBag

\* C13: the amount and the currency of every payment record appended by
\* verify-payment are those of the order fetched from the provider, whatever
\* amount or currency the request body carries.
C13_RecordFromFetchedOrder ==
    [][\A h \in InFlight :
        (h.pc = "verify_savePayment" /\ Steps(h) /\ payments' # payments)
        => LET rec == payments'[Len(payments')]
               od == ProviderOrder(h.req.razorpay_order_id)
           IN  /\ rec.amount.n * PaisePerUnit + rec.amount.hundredths = od.amount
               /\ "currency" \in DOMAIN rec
               /\ rec.currency = od.currency]_vars

\* handler h of verify-payment has its save of the upgraded account
\* acknowledged in this step, and no other handler has written the account
\* since h loaded it
AppliesUpgrade(h) ==
    /\ h.pc = "verify_saveUser" /\ GoesTo(h, "verify_savePayment")
    /\ FindOne(users, h.user.clerkUserId) = h.user

\* C14: the upgrade is idempotent: an application leaves the account pro
\* with chatAttempts = 0, an application to an account that an earlier
\* application produced changes nothing, and so would one more application
\* to the result.
C14_UpgradeIdempotent ==
    [][\A h \in InFlight :
        AppliesUpgrade(h)
        => LET c == h.user.clerkUserId IN
           /\ FindOne(users', c).subscriptionStatus = "pro"
           /\ FindOne(users', c).chatAttempts = 0
           /\ (h.user.subscriptionStatus = "pro" /\ h.user.chatAttempts = 0)
                => users' = users
           /\ UpgradeStored(FindOne(users', c), FindOne(users', c)) = FindOne(users', c)]_vars

\* the upgrade has been applied twice to account u1, which had used up its
\* free attempts
C14_Witness ==
    /\ Len(payments) = 2
    /\ \A i \in 1..2 : "u1" \in OwnersOf(payments[i])
    /\ FindOne(users, "u1").subscriptionStatus = "pro" /\ FindOne(users, "u1").chatAttempts = 0
    /\ Len(messages) = FreeLimit

\* an account as a quota check would read it, torn with respect to the
\* account before the upgrade: pro with the old counter, or free with the
\* counter reset
Torn(before, after) ==
    \/ after.subscriptionStatus = "pro" /\ after.chatAttempts # 0
    \/ /\ after.subscriptionStatus = "free"
       /\ after.chatAttempts = 0 /\ before.chatAttempts # 0

\* C15: the upgrade flips the tier and resets the counter in one write: the
\* account that the write of a verify-payment handler leaves in the store,
\* which is what a concurrent quota check of POST /api/messages reads next,
\* is never torn.
C15_UpgradeNotTorn ==
    [][\A h \in InFlight :
        (h.pc = "verify_saveUser" /\ GoesTo(h, "verify_savePayment"))
        => ~Torn(FindOne(users, h.user.clerkUserId), FindOne(users', h.user.clerkUserId))]_vars

\* C16: in every reachable state a pro account has chatAttempts = 0, also
\* when a POST /api/messages that read the account while it was free writes
\* its incremented counter after the upgrade was stored.
C16_ProHasZeroCount ==
    \A c \in ClerkIds :
        (Exists(c) /\ FindOne(users, c).subscriptionStatus = "pro")
        => FindOne(users, c).chatAttempts = 0

\* C17: GET /api/user/:clerkUserId for an id without an account inserts an
\* account that is free with chatAttempts = 0 and answers with it only once
\* the insert is acknowledged; for an id that has an account it answers with
\* that account and changes nothing in the store.
C17_GetUserResolves ==
    [][\A h \in InFlight :
        LET c == h.req.clerkUserId IN
        /\ (h.pc = "user_findOne" /\ Steps(h) /\ ~InfraFailure(h))
           => IF Exists(c)
              THEN /\ Responds(h) /\ resp'.status = 200
                   /\ resp'.body = FindOne(users, c)
                   /\ UNCHANGED store
              ELSE /\ GoesTo(h, "user_save")
                   /\ UNCHANGED users
        /\ (h.pc = "user_save" /\ Steps(h) /\ ~InfraFailure(h))
           => /\ ~Exists(c)
              /\ Responds(h) /\ resp'.status = 200
              /\ FindOne(users', c).clerkUserId = c
              /\ FindOne(users', c).subscriptionStatus = "free"
              /\ FindOne(users', c).chatAttempts = 0
              /\ resp'.body = FindOne(users', c)
              /\ \A d \in ClerkIds \ {c} : FindOne(users', d) = FindOne(users, d)]_vars

\* GET /api/user/u2 has created the account of u2 next to that of u1
C17_Witness ==
    /\ resp.ep = "getUser" /\ resp.status = 200
    /\ resp.body = NewUser(2, "u2")
    /\ FindOne(users, "u2") = NewUser(2, "u2")
    /\ Exists("u1")

\* the stored accounts with clerkUserId c
AccountsOf(c) == {i \in DOMAIN users : users[i].clerkUserId = c}

\* C18: in every reachable state no two accounts have the same clerkUserId,
\* and a clerkUserId that GET /api/user has just resolved has exactly one
\* account, also when requests for the same unseen id interleave between
\* their lookup and their save.
C18_OneAccountPerId ==
    /\ \A c \in ClerkIds : Cardinality(AccountsOf(c)) <= 1
    /\ (resp.ep = "getUser" /\ resp.status = 200)
       => Cardinality(AccountsOf(resp.body.clerkUserId)) = 1

\* two requests for the same unseen id both found no account; one has
\* inserted its document, the other is about to save its own
C18_Witness ==
    \E h \in InFlight :
        /\ h.pc = "user_save"
        /\ AccountsOf(h.user.clerkUserId) # {}
        /\ resp.ep = "getUser" /\ resp.status = 200
        /\ resp.body.clerkUserId = h.user.clerkUserId

\* C19: with the unique index in place, a GET /api/user handler that found
\* no account and comes to save its document after a concurrent request
\* created the account still completes successfully and answers with that
\* single account.
C19_ConcurrentResolveSucceeds ==
    [][\A h \in InFlight :
        (/\ h.pc = "user_save" /\ Steps(h)
         /\ AccountsOf(h.req.clerkUserId) # {})
        => /\ Responds(h) /\ resp'.status = 200
           /\ resp'.body = FindOne(users', h.req.clerkUserId)]_vars

\* how often document d occurs in the sequence docs
Occurrences(docs, d) == Cardinality({i \in DOMAIN docs : docs[i] = d})

\* C20: GET /api/messages/:clerkUserId answers 404 for an id without an
\* account; for an existing account it answers with exactly the messages
\* stored for that account, each as often as it is stored and none of
\* another account (the empty array when it has none), in ascending order
\* of timestamp, and changes nothing in the store.
C20_HistoryExactAndOrdered ==
    [][\A h \in InFlight :
        /\ (h.pc = "hist_findOne" /\ Steps(h) /\ ~InfraFailure(h))
           => IF Exists(h.req.clerkUserId)
              THEN GoesTo(h, "hist_find")
              ELSE Responds(h) /\ resp'.status = 404
        /\ (h.pc = "hist_find" /\ Steps(h) /\ ~InfraFailure(h))
           => LET b == resp'.body
                  id == FindOne(users, h.req.clerkUserId).id
              IN  /\ Responds(h) /\ resp'.status = 200
                  /\ \A i \in DOMAIN messages :
                        Occurrences(b, messages[i]) =
                            IF messages[i].userId = id
                            THEN Occurrences(messages, messages[i]) ELSE 0
                  /\ \A i \in DOMAIN b : Occurrences(messages, b[i]) > 0
                  /\ \A i, j \in DOMAIN b :
                        i < j => b[i].timestamp <= b[j].timestamp
                  /\ UNCHANGED store]_vars

\* the history of an account has been returned whose turns are stored
\* against the order of their timestamps, and it contains two turns of the
\* same millisecond: the answer is not the stored sequence
C20_Witness ==
    /\ resp.ep = "getMessages" /\ resp.status = 200
    /\ \E i, j \in DOMAIN messages :
            i < j /\ messages[i].timestamp > messages[j].timestamp
    /\ Len(resp.body) = Len(messages)
    /\ resp.body # messages
    /\ \E i \in DOMAIN resp.body :
            i > 1 /\ resp.body[i - 1].timestamp = resp.body[i].timestamp

\* C21: POST /api/create-order whose amount is missing, not a number or not
\* greater than 0 is answered 400 in its first step, before any call to the
\* database or the provider: no order is created and nothing in the store
\* changes.
C21_InvalidAmountRejected ==
    [][\A h \in InFlight :
        (/\ h.pc = "order_findOne" /\ Steps(h)
         /\ (h.req.amount.type # "number" \/ h.req.amount.n <= 0))
        => /\ Responds(h)
           /\ resp'.ep = "createOrder" /\ resp'.status = 400
           /\ UNCHANGED store]_vars

\* a create-order request has been refused for its amount while the provider
\* holds the one order it held before
C21_Witness ==
    /\ resp.ep = "createOrder" /\ resp.status = 400
    /\ resp.message = "Invalid or missing amount"
    /\ Len(orders) = 1

\* C22: every order that POST /api/create-order creates at the provider is
\* tagged with the clerkUserId of the request and with the id of the stored
\* account that has this clerkUserId; a well-formed request for a
\* clerkUserId without an account is answered 404 and creates no order; and
\* no other step creates an order.
C22_OrderTaggedWithAccount ==
    [][/\ \A h \in InFlight :
            /\ (h.pc = "order_create" /\ Steps(h) /\ orders' # orders)
               => LET order == orders'[Len(orders')]
                      c == h.req.clerkUserId
                  IN  /\ orders' = Append(orders, order)
                      /\ Exists(c)
                      /\ order.notes.clerkUserId = c
                      /\ order.notes.userId = FindOne(users, c).id
            /\ (/\ h.pc = "order_findOne" /\ Steps(h) /\ ~InfraFailure(h)
                /\ h.req.amount.type = "number" /\ h.req.amount.n > 0
                /\ h.req.clerkUserId # "" /\ ~Exists(h.req.clerkUserId))
               => /\ Responds(h) /\ resp'.status = 404
                  /\ UNCHANGED store
       /\ orders' # orders
            => \E h \in InFlight : h.pc = "order_create" /\ Steps(h)]_vars

\* an order has been created for the account of u2, which GET /api/user
\* created before
C22_Witness ==
    /\ resp.ep = "createOrder" /\ resp.status = 200
    /\ Exists("u2")
    /\ orders[Len(orders)].notes =
         [clerkUserId |-> "u2", userId |-> FindOne(users, "u2").id]

\* C23: the order that POST /api/create-order creates for a request with the
\* integer amount a > 0 carries the amount a, unscaled.
C23_AmountUnscaled ==
    [][\A h \in InFlight :
        (h.pc = "order_create" /\ Steps(h) /\ orders' # orders)
        => orders'[Len(orders')].amount = h.req.amount.n]_vars

\* handler h of verify-payment is refused in this step because its signature
\* is not the issued one, or because the fetched order is not tagged with
\* the clerkUserId it claims
SignatureOrIdentityRejected(h) ==
    /\ h.pc = "verify_fetch" /\ Responds(h) /\ ~InfraFailure(h)
    /\ ~MissingFields(h.req) /\ cryptoGlobal = "node:crypto"
    /\ LET od == ProviderOrder(h.req.razorpay_order_id) IN
       \/ h.req.razorpay_signature #
            IssuedSignature(h.req.razorpay_order_id, h.req.razorpay_payment_id)
       \/ od # NoOrder /\ od.notes.clerkUserId # h.req.clerkUserId

\* the status codes and messages of the responses of verify-payment
VerifyStatuses == {400, 404, 500}
VerifyMessages ==
    {"Missing payment verification details or clerkUserId",
     "Invalid payment signature", "Order not found on Razorpay",
     "User ID mismatch during verification",
     "User associated with order not found", "db error", "provider error",
     "crypto.createHmac is not a function"}

\* handler h can be refused for its signature or for an identity mismatch
\* with status s and message m
CanBeRejectedWith(h, s, m) ==
    ENABLED (/\ VerifyPaymentFetch(h)
             /\ SignatureOrIdentityRejected(h)
             /\ resp'.status = s /\ resp'.message = m)

\* C24: whenever two verify-payment requests are about to be refused, for
\* an invalid signature or for an identity mismatch, the responses they can
\* receive have the same status and the same message, so the response does not
\* tell which check failed.
C24_RejectionsIndistinguishable ==
    \A g, h \in InFlight :
        (g.pc = "verify_fetch" /\ h.pc = "verify_fetch")
        => \A s1, s2 \in VerifyStatuses, m1, m2 \in VerifyMessages :
                (CanBeRejectedWith(g, s1, m1) /\ CanBeRejectedWith(h, s2, m2))
                => (s1 = s2 /\ m1 = m2)

\* the (order id, payment id) pair of a verify-payment handler that is about
\* to compute the expected signature
IdPair(h) == <<h.req.razorpay_order_id, h.req.razorpay_payment_id>>
ComputesSignature(h) ==
    /\ h.pc = "verify_fetch" /\ ~MissingFields(h.req)
    /\ cryptoGlobal = "node:crypto"
ExpectedSignature(h) ==
    generated_signature(h.req.razorpay_order_id, h.req.razorpay_payment_id)

\* C25 as stated: the expected signature depends on the pair of ids only,
\* and any two distinct pairs give distinct expected signatures.
C25_SignatureInjective ==
    \A g, h \in InFlight :
        (ComputesSignature(g) /\ ComputesSignature(h))
        => (IdPair(g) = IdPair(h) <=> ExpectedSignature(g) = ExpectedSignature(h))

\* C25, amended: the expected signature depends on the pair of ids only; two
\* pairs that differ in the order id alone or in the payment id alone, and
\* any two distinct pairs of ids of the provider's form (without the
\* separator "|"), give distinct expected signatures.
C25_SignatureInjectiveOnProviderIds ==
    \A g, h \in InFlight :
        (ComputesSignature(g) /\ ComputesSignature(h))
        => /\ IdPair(g) = IdPair(h)
                => ExpectedSignature(g) = ExpectedSignature(h)
           /\ (/\ IdPair(g) # IdPair(h)
               /\ \/ IdPair(g)[1] = IdPair(h)[1]
                  \/ IdPair(g)[2] = IdPair(h)[2]
                  \/ {IdPair(g), IdPair(h)} \subseteq OrderIds \X PaymentIds)
                => ExpectedSignature(g) # ExpectedSignature(h)

\* two requests for different payments of the same order are about to have
\* their expected signatures computed
C25_Witness ==
    \E g, h \in InFlight :
        /\ ComputesSignature(g) /\ ComputesSignature(h)
        /\ IdPair(g) = <<"order_1", "pay_1">>
        /\ IdPair(h) = <<"order_1", "pay_2">>

\* C26: a server that has got past the environment check has every required
\* name set; a server that listens has a connected database; requests are
\* served by a listening server only; and a process that has exited stays
\* exited and serves nothing.
C26_FailFastStartup ==
    [][/\ phase' \in {"connecting", "listening"} => env' = RequiredEnvVars
       /\ phase' = "listening" => connection' = "connected"
       /\ (started' > 0 \/ handlers' # EmptyBag) => phase' = "listening"
       /\ phase = "loading" => phase' \in {"loading", "connecting", "exited"}
       /\ (phase = "loading" /\ env # RequiredEnvVars) => phase' = "exited"
       /\ phase = "exited"
            => phase' = "exited" /\ started' = 0 /\ handlers' = EmptyBag]_vars

\* the server process has exited because the database connection failed, in
\* a complete environment, without having served a request
C26_Witness ==
    /\ phase = "exited" /\ env = RequiredEnvVars
    /\ connection = "disconnected" /\ started = 0

\* the stage that follows a stage of a verify-payment attempt
NextStage(at) ==
    IF at = "verify_fetch" THEN "verify_findOne" ELSE
    IF at = "verify_findOne" THEN "verify_saveUser" ELSE "verify_savePayment"

\* handler h goes on to the await `at` holding the order od
GoesToWithOrder(h, at, od) ==
    \E g \in BagToSet(handlers') :
        /\ g.pc = at /\ g.req = h.req /\ g.orderDetails = od
        /\ handlers' = (handlers (-) SetToBag({h})) (+) SetToBag({g})

\* the responses of verify-payment that are given once the order was asked
\* of the provider
AfterFetchMessages == {"provider error", "Order not found on Razorpay",
                       "User ID mismatch during verification"}

\* C27: a verify-payment attempt moves through its stages in one order and
\* never back: the order is asked of the provider only for a request whose
\* signature check passed, it is fetched once and kept, the account is
\* looked up only by an attempt whose fetched order is tagged with the
\* claimed clerkUserId, and a step that answers success = false ends the
\* attempt and writes nothing.
C27_StagesInOrder ==
    [][\A h \in InFlight :
        (h.req.ep = "verifyPayment" /\ Steps(h))
        => /\ Responds(h) \/ (h.pc # "verify_savePayment"
                              /\ GoesTo(h, NextStage(h.pc)))
           /\ (/\ h.pc = "verify_fetch"
               /\ \/ GoesTo(h, "verify_findOne")
                  \/ Responds(h) /\ resp'.message \in AfterFetchMessages)
              => /\ ~MissingFields(h.req)
                 /\ cryptoGlobal = "node:crypto"
                 /\ h.req.razorpay_signature =
                      IssuedSignature(h.req.razorpay_order_id,
                                      h.req.razorpay_payment_id)
           /\ (h.pc = "verify_fetch" /\ ~Responds(h))
              => LET od == ProviderOrder(h.req.razorpay_order_id) IN
                 /\ od # NoOrder
                 /\ od.notes.clerkUserId = h.req.clerkUserId
                 /\ GoesToWithOrder(h, "verify_findOne", od)
           /\ (h.pc # "verify_fetch" /\ ~Responds(h))
              => GoesToWithOrder(h, NextStage(h.pc), h.orderDetails)
           /\ (Responds(h) /\ resp'.success = FALSE) => UNCHANGED store]_vars

\* an attempt has passed every check and both writes
C27_Witness ==
    /\ resp.ep = "verifyPayment" /\ resp.success = TRUE
    /\ Len(payments) = 1 /\ started = 1

\* C28: a verify-payment attempt with a valid signature whose order the
\* provider does not hold, and an attempt whose fetched order is tagged with
\* a clerkUserId that has no account, are answered 404 with success = false
\* and change nothing in the store.
C28_MissingOrderOrAccount ==
    [][\A h \in InFlight :
        /\ (/\ h.pc = "verify_fetch" /\ Steps(h) /\ ~InfraFailure(h)
            /\ ~MissingFields(h.req) /\ cryptoGlobal = "node:crypto"
            /\ h.req.razorpay_signature =
                 IssuedSignature(h.req.razorpay_order_id,
                                 h.req.razorpay_payment_id)
            /\ \A i \in DOMAIN orders : orders[i].id # h.req.razorpay_order_id)
           => /\ Responds(h)
              /\ resp'.status = 404 /\ resp'.success = FALSE
              /\ UNCHANGED store
        /\ (/\ h.pc = "verify_findOne" /\ Steps(h) /\ ~InfraFailure(h)
            /\ AccountsOf(h.orderDetails.notes.clerkUserId) = {})
           => /\ Responds(h)
              /\ resp'.status = 404 /\ resp'.success = FALSE
              /\ UNCHANGED store]_vars

\* an attempt for an order tagged with u2 has been refused because u2 has no
\* account
C28_Witness ==
    /\ resp.ep = "verifyPayment" /\ resp.status = 404
    /\ resp.message = "User associated with order not found"
    /\ AccountsOf("u2") = {} /\ payments = <<>>

\* C29: the tier is monotone: an account that is pro is still there and pro
\* after every step, also after the step in which a POST /api/messages that
\* read the account while it was free saves its counter.
C29_TierMonotone ==
    [][\A i \in DOMAIN users :
        users[i].subscriptionStatus = "pro"
        => /\ i \in DOMAIN users'
           /\ users'[i].clerkUserId = users[i].clerkUserId
           /\ users'[i].subscriptionStatus = "pro"]_vars

\* the counter of a message handler that read account u1 while it was free
\* has been saved after the upgrade, and the account is pro
C29_Witness ==
    /\ Exists("u1")
    /\ FindOne(users, "u1").subscriptionStatus = "pro"
    /\ FindOne(users, "u1").chatAttempts = FreeLimit
    /\ resp.ep = "postMessage" /\ resp.status = 201

\* C30: counter consistency: when no POST /api/messages handler is in flight,
\* the counter of every free account equals the number of user-originated
\* turns stored for it, whatever the interleaving and also when the counter
\* save failed after the turn was stored.
C30_CounterConsistent ==
    \A c \in ClerkIds :
        (IsFree(c) /\ \A h \in InFlight : h.req.ep # "postMessage")
        => FindOne(users, c).chatAttempts = UserTurns(c)

====
